---- MODULE Spec2Model ----
(***************************************************************************)
(* Model of seoul_sales_dashboard.py: a Streamlit script that loads one    *)
(* CSV of sales estimates (cached for the process lifetime), labels each   *)
(* row with a borough by keyword matching, and on every script run shows   *)
(* the aggregates of the rows of one borough and, optionally, one quarter. *)
(*                                                                         *)
(* Text is a sequence of characters.  A Hangul syllable is one character   *)
(* of a Python str; it is written here as one romanised token, so that     *)
(* "substring" keeps its meaning: <<"pyeong","chang","dong">> holds        *)
(* <<"chang","dong">>.  "sp" is the space character.  A column name is the *)
(* sequence of its "_"-separated parts.  Business-category names are only  *)
(* compared and ordered, never searched, and are written as whole strings. *)
(***************************************************************************)
EXTENDS Integers, Sequences, FiniteSets, TLC

VARIABLES
    file,       \* what is at FILE_PATH now
    cache,      \* st.cache_data's store for load_data: <<>> or <<entry>>
    session,    \* the browser session's widget values
    out         \* what the last script run put on the page

vars == <<file, cache, session, out>>

-----------------------------------------------------------------------------
(* Bounds of the model. *)

MaxRows == 2        \* rows of a CSV file in the dashboard specification
MaxNameLen == 3     \* characters of an area name in the classifier specification
MaxCellLen == 2     \* characters of a numeric cell in the loader specification
MaxLoaderRows == 2  \* rows of a CSV file in the loader specification
MaxViewRows == 2    \* rows of a CSV file in the aggregator specification

-----------------------------------------------------------------------------
(* Constants and mapping (lines 15-41), in insertion order. *)

KEYWORD_TO_DISTRICT ==
  <<
    <<<<"jong", "ro">>, "jongrogu">>, <<<<"hye", "hwa">>, "jongrogu">>, <<<<"chang", "sin">>, "jongrogu">>, <<<<"in", "sa", "dong">>, "jongrogu">>,
    <<<<"myeong", "dong">>, "junggu">>, <<<<"nam", "dae", "mun">>, "junggu">>, <<<<"buk", "chang", "dong">>, "junggu">>, <<<<"eul", "ji", "ro">>, "junggu">>,
    <<<<"i", "tae", "won">>, "yongsangu">>, <<<<"han", "nam">>, "yongsangu">>, <<<<"bo", "gwang">>, "yongsangu">>, <<<<"yong", "san">>, "yongsangu">>,
    <<<<"ma", "jang">>, "seongdonggu">>, <<<<"seong", "su">>, "seongdonggu">>, <<<<"haeng", "dang">>, "seongdonggu">>,
    <<<<"geon", "dae">>, "gwangjingu">>, <<<<"jun", "yang">>, "gwangjingu">>, <<<<"hwa", "yang">>, "gwangjingu">>, <<<<"ja", "yang">>, "gwangjingu">>,
    <<<<"jang", "an">>, "dongdaemungu">>, <<<<"cheong", "ryang", "ri">>, "dongdaemungu">>, <<<<"je", "gi">>, "dongdaemungu">>,
    <<<<"myeon", "mok">>, "jungranggu">>, <<<<"sang", "bong">>, "jungranggu">>, <<<<"jung", "hwa">>, "jungranggu">>,
    <<<<"don", "am">>, "seongbukgu">>, <<<<"an", "am">>, "seongbukgu">>, <<<<"jong", "am">>, "seongbukgu">>,
    <<<<"su", "yu">>, "gangbukgu">>, <<<<"mi", "a">>, "gangbukgu">>, <<<<"beon", "dong">>, "gangbukgu">>,
    <<<<"ssang", "mun">>, "dobonggu">>, <<<<"chang", "dong">>, "dobonggu">>, <<<<"bang", "hak">>, "dobonggu">>,
    <<<<"sang", "gye">>, "nowongu">>, <<<<"jung", "gye">>, "nowongu">>, <<<<"ha", "gye">>, "nowongu">>,
    <<<<"yeon", "seo">>, "eunpyeonggu">>, <<<<"eung", "am">>, "eunpyeonggu">>, <<<<"bul", "gwang">>, "eunpyeonggu">>,
    <<<<"i", "dae">>, "seodaemungu">>, <<<<"sin", "chon">>, "seodaemungu">>, <<<<"yeon", "hui">>, "seodaemungu">>,
    <<<<"hong", "dae">>, "mapogu">>, <<<<"hap", "jeong">>, "mapogu">>, <<<<"mang", "won">>, "mapogu">>, <<<<"gong", "deok">>, "mapogu">>,
    <<<<"mok", "dong">>, "yangcheongu">>, <<<<"sin", "jeong">>, "yangcheongu">>, <<<<"sin", "wol">>, "yangcheongu">>,
    <<<<"hwa", "gok">>, "gangseogu">>, <<<<"bal", "san">>, "gangseogu">>, <<<<"ma", "gok">>, "gangseogu">>,
    <<<<"gu", "ro">>, "gurogu">>, <<<<"gae", "bong">>, "gurogu">>, <<<<"o", "ryu">>, "gurogu">>, <<<<"sin", "do", "rim">>, "gurogu">>,
    <<<<"ga", "san">>, "geumcheongu">>, <<<<"si", "heung">>, "geumcheongu">>, <<<<"dok", "san">>, "geumcheongu">>,
    <<<<"yeong", "deung", "po">>, "yeongdeungpogu">>, <<<<"dang", "san">>, "yeongdeungpogu">>, <<<<"mun", "rae">>, "yeongdeungpogu">>, <<<<"yeo", "ui", "do">>, "yeongdeungpogu">>,
    <<<<"no", "ryang", "jin">>, "dongjakgu">>, <<<<"sang", "do">>, "dongjakgu">>, <<<<"sa", "dang">>, "dongjakgu">>, <<<<"heuk", "seok">>, "dongjakgu">>,
    <<<<"sin", "rim">>, "gwanakgu">>, <<<<"bong", "cheon">>, "gwanakgu">>, <<<<"nam", "hyeon">>, "gwanakgu">>,
    <<<<"gang", "nam", "yeok">>, "seochogu">>, <<<<"gyo", "dae">>, "seochogu">>, <<<<"bang", "bae">>, "seochogu">>, <<<<"yang", "jae">>, "seochogu">>,
    <<<<"ap", "gu", "jeong">>, "gangnamgu">>, <<<<"cheong", "dam">>, "gangnamgu">>, <<<<"sam", "seong", "dong">>, "gangnamgu">>, <<<<"yeok", "sam">>, "gangnamgu">>, <<<<"non", "hyeon">>, "gangnamgu">>, <<<<"sin", "sa">>, "gangnamgu">>, <<<<"ga", "ro", "su", "gil">>, "gangnamgu">>,
    <<<<"jam", "sil">>, "songpagu">>, <<<<"ga", "rak">>, "songpagu">>, <<<<"mun", "jeong">>, "songpagu">>, <<<<"seok", "chon">>, "songpagu">>,
    <<<<"cheon", "ho">>, "gangdonggu">>, <<<<"myeong", "il">>, "gangdonggu">>, <<<<"am", "sa">>, "gangdonggu">>, <<<<"seong", "nae">>, "gangdonggu">>
  >>

\* the label of a row no keyword matches (line 55)
UNCLASSIFIED == "gita/mibunryu"

\* Python's order of the borough names (code points of the Hangul strings),
\* which sorted() uses at line 75
HangulOrder ==
  << "gangnamgu", "gangdonggu", "gangbukgu", "gangseogu", "gwanakgu",
     "gwangjingu", "gurogu", "geumcheongu", "nowongu", "dobonggu",
     "dongdaemungu", "dongjakgu", "mapogu", "seodaemungu", "seochogu",
     "seongdonggu", "seongbukgu", "songpagu", "yangcheongu",
     "yeongdeungpogu", "yongsangu", "eunpyeonggu", "jongrogu", "junggu",
     "jungranggu" >>

-----------------------------------------------------------------------------
(* Python and pandas primitives the script uses. *)

\* a missing cell of a text column (pandas NaN in an object column)
NaN == <<"NaN">>

\* `kw in s` on str: kw occurs in s as a contiguous run
IsSubstring(kw, s) ==
    \E k \in 0..(Len(s) - Len(kw)) : SubSeq(s, k + 1, k + Len(kw)) = kw

\* str(name): text is itself, float nan prints as "nan"
py_str(v) == IF v = NaN THEN <<"n", "a", "n">> ELSE v

Digits == <<"0", "1", "2", "3", "4", "5", "6", "7", "8", "9">>

IsDigit(c) == \E d \in 1..Len(Digits) : Digits[d] = c

DigitValue(c) == (CHOOSE d \in 1..Len(Digits) : Digits[d] = c) - 1

RECURSIVE DigitsValue(_, _)
DigitsValue(s, acc) ==
    IF s = <<>> THEN acc
    ELSE DigitsValue(Tail(s), acc * 10 + DigitValue(Head(s)))

AllDigits(s) == s # <<>> /\ \A i \in 1..Len(s) : IsDigit(s[i])

\* int(s) of a decimal numeral with an optional sign
py_int(s) ==
    IF Head(s) = "-" THEN 0 - DigitsValue(Tail(s), 0) ELSE DigitsValue(s, 0)

RECURSIVE NatDigits(_)
NatDigits(n) ==
    IF n < 10 THEN <<Digits[n + 1]>>
    ELSE Append(NatDigits(n \div 10), Digits[(n % 10) + 1])

\* str(q) of an integer
py_str_int(n) == IF n < 0 THEN <<"-">> \o NatDigits(0 - n) ELSE NatDigits(n)

\* a float that may be nan: pd.to_numeric's result for one cell
Num(v) == [isnan |-> FALSE, v |-> v]
NumNaN == [isnan |-> TRUE, v |-> 0]

\* pd.to_numeric(cell, errors='coerce'): a numeral keeps its value, a
\* missing cell or any other text becomes nan
to_numeric(cell) ==
    IF AllDigits(cell) \/ (cell # <<>> /\ Head(cell) = "-" /\ AllDigits(Tail(cell)))
    THEN Num(py_int(cell))
    ELSE NumNaN

\* .fillna(0) on one value
fillna0(x) == IF x.isnan THEN 0 ELSE x.v

\* a list built by comprehension, as a tuple
List(f) == f \o <<>>

RECURSIVE SumSeq(_)
SumSeq(s) == IF s = <<>> THEN 0 ELSE Head(s) + SumSeq(Tail(s))

\* the values of s, each once
Unique(s) == {s[i] : i \in 1..Len(s)}

-----------------------------------------------------------------------------
(* The CSV file and the table read from it. *)

\* the header of the CSV, cut down to the columns the script reads plus one
\* age-bracket count column; the real file has more columns of the same kinds
COLUMNS ==
  << <<"gijun", "nyeonbungi", "kodeu">>,           \* quarter code
     <<"sanggwon", "kodeu", "myeong">>,            \* area name
     <<"seobiseu", "eopjong", "kodeu", "myeong">>, \* business-category name
     <<"dangwol", "maechul", "geumaek">>,          \* monthly sales amount
     <<"dangwol", "maechul", "geonsu">>,           \* monthly sales count
     <<"namseong", "maechul", "geumaek">>,         \* male sales amount
     <<"yeoseong", "maechul", "geumaek">>,         \* female sales amount
     <<"yeonryeongdae", "10", "maechul", "geumaek">>,
     <<"yeonryeongdae", "20", "maechul", "geumaek">>,
     <<"yeonryeongdae", "30", "maechul", "geumaek">>,
     <<"yeonryeongdae", "10", "maechul", "geonsu">> >>

ColQuarter == <<"gijun", "nyeonbungi", "kodeu">>
ColArea == <<"sanggwon", "kodeu", "myeong">>
ColIndustry == <<"seobiseu", "eopjong", "kodeu", "myeong">>
ColSales == <<"dangwol", "maechul", "geumaek">>
ColMale == <<"namseong", "maechul", "geumaek">>
ColFemale == <<"yeoseong", "maechul", "geumaek">>
ColDistrict == <<"jachigu">>

\* df[name]: the position of the column called name
ColumnIndex(columns, name) ==
    CHOOSE c \in 1..Len(columns) : columns[c] = name

\* pd.DataFrame(): no columns, no rows
EmptyDataFrame == [columns |-> <<>>, rows |-> <<>>]

\* df.empty: some axis has length 0
IsEmpty(df) == Len(df.columns) = 0 \/ Len(df.rows) = 0

\* pd.read_csv (line 49): one row per CSV line; the quarter code becomes an
\* integer, an empty area name a missing value, other cells stay text
read_csv(f) ==
    [columns |-> COLUMNS,
     rows |-> List([i \in 1..Len(f.rows) |->
                 List([c \in 1..Len(COLUMNS) |->
                     IF COLUMNS[c] = ColQuarter THEN py_int(f.rows[i][c])
                     ELSE IF COLUMNS[c] = ColArea /\ f.rows[i][c] = <<>> THEN NaN
                     ELSE f.rows[i][c]])])]

\* variant: the loop keeps going and the last matching keyword decides
MatchFrom_LastWins(s, i) ==
    LET found == {k \in i..Len(KEYWORD_TO_DISTRICT) :
                     IsSubstring(KEYWORD_TO_DISTRICT[k][1], s)}
    IN  IF found = {} THEN UNCLASSIFIED
        ELSE KEYWORD_TO_DISTRICT[CHOOSE k \in found : \A j \in found : j <= k][2]

\* match_district (lines 52-55): the loop over KEYWORD_TO_DISTRICT.items()
RECURSIVE MatchFrom(_, _)
MatchFrom(s, i) ==
    IF i > Len(KEYWORD_TO_DISTRICT) THEN UNCLASSIFIED
    ELSE IF IsSubstring(KEYWORD_TO_DISTRICT[i][1], s) THEN KEYWORD_TO_DISTRICT[i][2]
    ELSE MatchFrom(s, i + 1)

match_district(name) == MatchFrom(py_str(name), 1)

\* line 57: the borough column, appended
AddDistrict(df) ==
    [columns |-> Append(df.columns, ColDistrict),
     rows |-> List([i \in 1..Len(df.rows) |->
                 Append(df.rows[i],
                        match_district(df.rows[i][ColumnIndex(df.columns, ColArea)]))])]

\* line 60: the columns whose name holds "maechul_geumaek" or "maechul_geonsu"
numeric_cols(columns) ==
    {c \in 1..Len(columns) :
        \/ IsSubstring(<<"maechul", "geumaek">>, columns[c])
        \/ IsSubstring(<<"maechul", "geonsu">>, columns[c])}

\* line 62 on one cell
CoerceCell(cell) == fillna0(to_numeric(cell))

\* variant: rows with a cell that does not parse are dropped (dropna)
EnsureNumeric_Dropna(df) ==
    [columns |-> df.columns,
     rows |-> SelectSeq(df.rows,
                        LAMBDA r : \A c \in numeric_cols(df.columns) :
                                       ~to_numeric(r[c]).isnan)]

\* lines 60-62: every numeric column coerced, every row kept
EnsureNumeric(df) ==
    [columns |-> df.columns,
     rows |-> List([i \in 1..Len(df.rows) |->
                 List([c \in 1..Len(df.columns) |->
                     IF c \in numeric_cols(df.columns)
                     THEN CoerceCell(df.rows[i][c])
                     ELSE df.rows[i][c]])])]

\* variant: the missing file is not reported
load_data_NoError(f) ==
    IF f.kind = "missing"
    THEN [error |-> FALSE, df |-> EmptyDataFrame]
    ELSE [error |-> FALSE, df |-> EnsureNumeric(AddDistrict(read_csv(f)))]

\* load_data's body (lines 45-64) on a file that can be read: the table it
\* returns and whether it called st.error
load_data(f) ==
    IF f.kind = "missing"
    THEN [error |-> TRUE, df |-> EmptyDataFrame]
    ELSE [error |-> FALSE, df |-> EnsureNumeric(AddDistrict(read_csv(f)))]

-----------------------------------------------------------------------------
(* The filters (lines 75-86). *)

PyNone == "None"
ALL_QUARTERS == <<"jeon", "che">>

\* variant: the unclassified label is offered like a borough
districts_KeepUnclassified(df) ==
    LET present == Unique([i \in 1..Len(df.rows) |->
                             df.rows[i][ColumnIndex(df.columns, ColDistrict)]])
    IN  SelectSeq(Append(HangulOrder, UNCLASSIFIED), LAMBDA d : d \in present)

\* variant: every borough is offered, with rows or without
districts_AllBoroughs(df) == HangulOrder

\* line 75: the boroughs of the table, the unclassified label left out, sorted
districts(df) ==
    LET present == Unique([i \in 1..Len(df.rows) |->
                             df.rows[i][ColumnIndex(df.columns, ColDistrict)]])
    IN  SelectSeq(HangulOrder, LAMBDA d : d \in present /\ d # UNCLASSIFIED)

\* sorted(..., reverse=True) of a set of integers
RECURSIVE SortedDesc(_)
SortedDesc(S) ==
    IF S = {} THEN <<>>
    ELSE LET m == CHOOSE x \in S : \A y \in S : y <= x
         IN  <<m>> \o SortedDesc(S \ {m})

\* line 78
quarters(df) ==
    SortedDesc(Unique([i \in 1..Len(df.rows) |->
                          df.rows[i][ColumnIndex(df.columns, ColQuarter)]]))

\* line 79
options_q(df) ==
    LET qs == quarters(df)
    IN  <<ALL_QUARTERS>> \o [k \in 1..Len(qs) |-> py_str_int(qs[k])]

\* line 76: index of "gangnamgu" when offered, else 0 (positions from 1 here)
DefaultDistrictIndex(ds) ==
    IF \E k \in 1..Len(ds) : ds[k] = "gangnamgu"
    THEN CHOOSE k \in 1..Len(ds) : ds[k] = "gangnamgu"
    ELSE 1

\* st.selectbox: the session's value when it has one, else the option at
\* index; None when there is nothing to offer
selectbox(options, index, chosen, none) ==
    IF options = <<>> THEN none
    ELSE IF chosen # <<>> THEN chosen[1]
    ELSE options[index]

\* variant: the quarter is not applied
sub_df_IgnoreQuarter(df, selected_dist, selected_q) ==
    SelectSeq(df.rows, LAMBDA r : r[ColumnIndex(df.columns, ColDistrict)] = selected_dist)

\* lines 83-86
sub_df(df, selected_dist, selected_q) ==
    LET d == ColumnIndex(df.columns, ColDistrict)
        q == ColumnIndex(df.columns, ColQuarter)
    IN  IF selected_q = ALL_QUARTERS
        THEN SelectSeq(df.rows, LAMBDA r : r[d] = selected_dist)
        ELSE SelectSeq(df.rows, LAMBDA r : r[d] = selected_dist /\ r[q] = py_int(selected_q))

-----------------------------------------------------------------------------
(* The aggregates of a non-empty view (lines 94-105, 128). *)

\* the values of column c over the rows of view
ColumnValues(view, c) == List([i \in 1..Len(view) |-> view[i][c]])

\* line 95: the age-bracket sales-amount columns, in column order
age_cols(columns) ==
    SelectSeq(List([c \in 1..Len(columns) |-> c]),
              LAMBDA c : /\ IsSubstring(<<"yeonryeongdae">>, columns[c])
                         /\ IsSubstring(<<"maechul", "geumaek">>, columns[c]))

\* line 96: the sum of each age-bracket column over the view
age_totals(view, columns) ==
    List([k \in 1..Len(age_cols(columns)) |->
        SumSeq(ColumnValues(view, age_cols(columns)[k]))])

\* variant: a later column with the same sum takes over
RECURSIVE IdxmaxFrom_LastMax(_, _, _)
IdxmaxFrom_LastMax(s, i, best) ==
    IF i > Len(s) THEN best
    ELSE IdxmaxFrom_LastMax(s, i + 1, IF s[i] >= s[best] THEN i ELSE best)

\* Series.idxmax: the position of the first occurrence of the maximum
RECURSIVE IdxmaxFrom(_, _, _)
IdxmaxFrom(s, i, best) ==
    IF i > Len(s) THEN best
    ELSE IdxmaxFrom(s, i + 1, IF s[i] > s[best] THEN i ELSE best)

idxmax(s) == IdxmaxFrom(s, 2, 1)

\* line 97: the second "_"-part of the winning column's name, plus "dae"
main_age_group(view, columns) ==
    <<columns[age_cols(columns)[idxmax(age_totals(view, columns))]][2], "dae">>

\* Python's order of the business-category names of the model's files
\* (groupby sorts its keys)
CategoryOrder == <<"keopi", "pyeonuijeom", "hansik">>

\* a mean as the exact fraction num/den
Mean(values) == [num |-> SumSeq(values), den |-> Len(values)]

\* a > b on two means
MeanGreater(a, b) == a.num * b.den > b.num * a.den

\* groupby(category)[sales].mean(): one entry per category of the view, in
\* key order
GroupMeans(view, columns) ==
    LET g == ColumnIndex(columns, ColIndustry)
        v == ColumnIndex(columns, ColSales)
        keys == SelectSeq(CategoryOrder, LAMBDA k : \E i \in 1..Len(view) : view[i][g] = k)
    IN  List([k \in 1..Len(keys) |->
            [name |-> keys[k],
             mean |-> Mean(ColumnValues(SelectSeq(view, LAMBDA r : r[g] = keys[k]), v))]])

\* sort_values(ascending=False), as an insertion sort: an entry goes before
\* the first entry with a smaller mean
RECURSIVE InsertDescending(_, _)
InsertDescending(sorted, e) ==
    IF sorted = <<>> THEN <<e>>
    ELSE IF MeanGreater(e.mean, Head(sorted).mean) THEN <<e>> \o sorted
    ELSE <<Head(sorted)>> \o InsertDescending(Tail(sorted), e)

RECURSIVE SortDescending(_, _)
SortDescending(s, acc) ==
    IF s = <<>> THEN acc
    ELSE SortDescending(Tail(s), InsertDescending(acc, Head(s)))

\* variant: the means are left in key order
industry_rank_Unsorted(view, columns) == GroupMeans(view, columns)

\* line 100
industry_rank(view, columns) == SortDescending(GroupMeans(view, columns), <<>>)

\* lines 94-105 and 128: everything the else-branch computes
Summarize(view, columns) ==
    LET rank == industry_rank(view, columns)
    IN
    [age_totals |-> age_totals(view, columns),
     main_age_group |-> main_age_group(view, columns),
     industry_rank |-> rank,
     top_industry |-> rank[1].name,
     top_industry_val |-> rank[1].mean,
     total |-> SumSeq(ColumnValues(view, ColumnIndex(columns, ColSales))),
     male |-> SumSeq(ColumnValues(view, ColumnIndex(columns, ColMale))),
     female |-> SumSeq(ColumnValues(view, ColumnIndex(columns, ColFemale)))]

-----------------------------------------------------------------------------
(* One run of the script (lines 67-161). *)

FreshSession == [dist |-> <<>>, q |-> <<>>]

\* the page before any run
BlankPage ==
    [exception |-> FALSE, df |-> <<>>, page |-> {},
     districts |-> <<>>, selected_dist |-> PyNone,
     options_q |-> <<>>, selected_q |-> <<>>,
     sub_df |-> <<>>, summary |-> <<>>]

\* variant: no cache, the file is read on every run
CacheLookup_Reload(f, cch) == load_data(f)

\* load_data() through st.cache_data (lines 43-44, 69): the stored entry when
\* there is one; else the body runs and its result is stored
CacheLookup(f, cch) == IF cch # <<>> THEN cch[1] ELSE load_data(f)

CacheAfter(f, cch) == IF cch # <<>> THEN cch ELSE <<load_data(f)>>

\* the elements the else-branch of line 88 shows
SummaryElements ==
    {"metrics", "age_chart", "gender_chart", "table", "industry_chart", "insight"}

\* lines 71-158: the page for a loaded table
Dashboard(entry, sess) ==
    LET df == entry.df
        ds == districts(df)
        sd == selectbox(ds, DefaultDistrictIndex(ds), sess.dist, PyNone)
        oq == options_q(df)
        sq == selectbox(oq, 1, sess.q, <<>>)
        view == sub_df(df, sd, sq)
        shown == {"title", "sidebar_info"} \cup (IF entry.error THEN {"error"} ELSE {})
    IN  IF IsEmpty(df)
        THEN [BlankPage EXCEPT !.df = <<df>>, !.page = shown]
        ELSE [exception |-> FALSE, df |-> <<df>>,
              page |-> shown \cup {"filters"}
                         \cup (IF view = <<>> THEN {"warning"} ELSE SummaryElements),
              districts |-> ds, selected_dist |-> sd,
              options_q |-> oq, selected_q |-> sq,
              sub_df |-> view,
              summary |-> IF view = <<>> THEN <<>>
                          ELSE <<Summarize(view, df.columns)>>]

\* a run whose load_data call raises at line 49: the title is on the page,
\* nothing is stored, the rest of the script does not run
RunScript(f, cch, sess) ==
    IF cch = <<>> /\ f.kind = "corrupt"
    THEN [BlankPage EXCEPT !.exception = TRUE, !.page = {"title"}]
    ELSE Dashboard(CacheLookup(f, cch), sess)

StoreAfterRun(f, cch) ==
    IF cch = <<>> /\ f.kind = "corrupt" THEN cch ELSE CacheAfter(f, cch)

-----------------------------------------------------------------------------
(* The files the specifications draw from. *)

SeqsUpTo(S, n) == UNION {[1..k -> S] : k \in 0..n}

\* one CSV line, its cells in the order of COLUMNS
Row(quarter, area, industry, sales, count, male, female, a10, a20, a30, c10) ==
    <<quarter, area, industry, sales, count, male, female, a10, a20, a30, c10>>

Csv(rows) == [kind |-> "csv", rows |-> rows]
MissingFile == [kind |-> "missing", rows |-> <<>>]
CorruptFile == [kind |-> "corrupt", rows |-> <<>>]

Q1 == <<"2", "0", "2", "3", "1">>
Q2 == <<"2", "0", "2", "3", "2">>
Apgujeong == <<"ap", "gu", "jeong">>
Jongno == <<"jong", "ro">>
Pyeongchangdong == <<"pyeong", "chang", "dong">>
Changdong == <<"chang", "dong">>
Bukchon == <<"buk", "chon">>
GangnamStationAlley == <<"gang", "nam", "yeok", "sp", "meok", "ja", "gol", "mok">>

\* the dashboard's files: an area of one borough in one quarter, an area of
\* another borough in another quarter, and an area no keyword matches
AppRow(q, a) ==
    Row(q, a, "hansik", <<"1", "0", "0">>, <<"4">>, <<"6", "0">>, <<"4", "0">>,
        <<"1", "0">>, <<"7", "0">>, <<"2", "0">>, <<"1">>)

AppRows == {AppRow(Q1, Apgujeong), AppRow(Q2, Changdong), AppRow(Q1, Bukchon)}

AppFiles == {Csv(rows) : rows \in SeqsUpTo(AppRows, MaxRows)}
                \cup {MissingFile, CorruptFile}

\* the classifier's files: one row, its area name any text over NameAlphabet
\* (the empty name is a missing cell), or the longer name "gang nam yeok sp meok ja gol mok"
NameAlphabet ==
    {"gang", "nam", "yeok", "buk", "chang", "dong", "pyeong", "sin", "sa", "dang"}

AreaNames == SeqsUpTo(NameAlphabet, MaxNameLen) \cup {GangnamStationAlley}

ClassifierFiles ==
    {Csv(<<Row(Q1, a, "hansik", <<"1", "0", "0">>, <<"4">>, <<"6", "0">>, <<"4", "0">>,
               <<"1", "0">>, <<"7", "0">>, <<"2", "0">>, <<"1">>)>>) : a \in AreaNames}

\* the loader's files: the monthly sales amount is any text over
\* CellAlphabet or one of three cells with a sign; the other sales cells are
\* one numeral, one word, one empty cell and so on
CellAlphabet == {"7", "x"}

RawCells ==
    SeqsUpTo(CellAlphabet, MaxCellLen) \cup {<<"-">>, <<"-", "7">>, <<"7", "-">>}

LoaderRows ==
    {Row(Q1, Jongno, "hansik", s, <<"x", "7">>, <<>>, <<"-", "3">>,
         <<"1", "0">>, <<"-">>, <<"0", "5">>, <<"n", "a">>) : s \in RawCells}

LoaderFiles == {Csv(rows) : rows \in SeqsUpTo(LoaderRows, MaxLoaderRows)}

\* the aggregator's files: rows of one borough and quarter; the category,
\* the sales amount and the three age-bracket amounts vary
AggregatorRows ==
    {Row(Q1, Jongno, c, s, <<"4">>, <<"6", "0">>, <<"4", "0">>, a[1], a[2], a[3], <<"1">>) :
        c \in {"keopi", "pyeonuijeom", "hansik"},
        s \in {<<"1", "0", "0">>, <<"2", "0", "0">>},
        a \in {<<<<"1">>, <<"1">>, <<"1">>>>, <<<<"2">>, <<"1">>, <<"1">>>>,
               <<<<"1">>, <<"2">>, <<"2">>>>, <<<<"1">>, <<"1">>, <<"2">>>>}}

AggregatorFiles == {Csv(rows) : rows \in SeqsUpTo(AggregatorRows, MaxViewRows) \ {<<>>}}

-----------------------------------------------------------------------------
(* Actions. *)

\* a browser opens the page: a new session, the script runs top to bottom
OpenPage ==
    /\ session' = FreshSession
    /\ cache' = StoreAfterRun(file, cache)
    /\ out' = RunScript(file, cache, FreshSession)
    /\ UNCHANGED file

\* the user picks a borough in the sidebar: the script runs again
SelectDistrict(d) ==
    /\ "filters" \in out.page
    /\ \E k \in 1..Len(out.districts) : out.districts[k] = d
    /\ session' = [session EXCEPT !.dist = <<d>>]
    /\ cache' = StoreAfterRun(file, cache)
    /\ out' = RunScript(file, cache, session')
    /\ UNCHANGED file

\* the user picks a quarter, or all quarters: the script runs again
SelectQuarter(q) ==
    /\ "filters" \in out.page
    /\ \E k \in 1..Len(out.options_q) : out.options_q[k] = q
    /\ session' = [session EXCEPT !.q = <<q>>]
    /\ cache' = StoreAfterRun(file, cache)
    /\ out' = RunScript(file, cache, session')
    /\ UNCHANGED file

\* somebody creates, replaces, damages or removes the file at FILE_PATH
ReplaceFile(f) ==
    /\ f # file
    /\ file' = f
    /\ UNCHANGED <<cache, session, out>>

-----------------------------------------------------------------------------
(* Specifications. *)

InitWith(files) ==
    /\ file \in files
    /\ cache = <<>>
    /\ session = FreshSession
    /\ out = BlankPage

\* the dashboard in use
Init == InitWith(AppFiles)

Next ==
    \/ OpenPage
    \/ \E d \in Unique(out.districts) : SelectDistrict(d)
    \/ \E q \in Unique(out.options_q) : SelectQuarter(q)
    \/ \E f \in AppFiles : ReplaceFile(f)

Spec == Init /\ [][Next]_vars

\* the classifier on every area name
InitClassifier == InitWith(ClassifierFiles)

NextClassifier == OpenPage

SpecClassifier == InitClassifier /\ [][NextClassifier]_vars

\* the loader on every numeric cell
InitLoader == InitWith(LoaderFiles)

NextLoader == OpenPage

SpecLoader == InitLoader /\ [][NextLoader]_vars

\* the aggregator on every view
InitAggregator == InitWith(AggregatorFiles)

NextAggregator == OpenPage

SpecAggregator == InitAggregator /\ [][NextAggregator]_vars

-----------------------------------------------------------------------------
(* Properties.  Each is stated without the operators it is about: text      *)
(* search by its two end points, a numeral by its place values, the view by *)
(* the printed quarter, the winning column by comparison with the others.   *)

\* kw is s[a..b] for some a, b
Occurs(kw, s) == \E a \in 1..Len(s), b \in 1..Len(s) : SubSeq(s, a, b) = kw

\* the text match_district searches for a CSV cell
NameText(cell) == IF cell = <<>> THEN <<"n", "a", "n">> ELSE cell

\* the positions of the keywords that occur in s
Hits(s) == {k \in 1..Len(KEYWORD_TO_DISTRICT) : Occurs(KEYWORD_TO_DISTRICT[k][1], s)}

PosDistrict == Len(COLUMNS) + 1
PosQuarter == CHOOSE c \in 1..Len(COLUMNS) : COLUMNS[c][1] = "gijun"
PosArea == CHOOSE c \in 1..Len(COLUMNS) : COLUMNS[c][1] = "sanggwon"
PosIndustry == CHOOSE c \in 1..Len(COLUMNS) : COLUMNS[c][1] = "seobiseu"
PosSales == CHOOSE c \in 1..Len(COLUMNS) : COLUMNS[c] = <<"dangwol", "maechul", "geumaek">>

\* C1: every row of the loaded table carries exactly one label: the borough
\* of the first keyword, in the table's insertion order, that occurs in the
\* row's area name, and the unclassified label exactly when no keyword occurs.
C1_FirstKeywordInTableOrder ==
    cache # <<>> =>
        \A i \in 1..Len(file.rows) :
            LET hits == Hits(NameText(file.rows[i][PosArea]))
                label == cache[1].df.rows[i][PosDistrict]
            IN  /\ Len(cache[1].df.rows) = Len(file.rows)
                /\ (hits = {}) <=> (label = UNCLASSIFIED)
                /\ hits # {} =>
                     \E k \in hits : /\ \A j \in hits : k <= j
                                     /\ label = KEYWORD_TO_DISTRICT[k][2]

\* "sin sa dang" holds "sin sa" (gangnamgu, later in the table) before
\* "sa dang" (dongjakgu, earlier in the table): the table's order decides
C1_Witness ==
    /\ cache # <<>>
    /\ file.rows[1][PosArea] = <<"sin", "sa", "dang">>
    /\ cache[1].df.rows[1][PosDistrict] = "dongjakgu"

\* C2: the area name "pyeong chang dong" holds no keyword of the table and is
\* labelled unclassified.
C2_PyeongchangdongUnclassified ==
    cache # <<>> =>
        \A i \in 1..Len(file.rows) :
            file.rows[i][PosArea] = Pyeongchangdong =>
                /\ Hits(Pyeongchangdong) = {}
                /\ cache[1].df.rows[i][PosDistrict] = UNCLASSIFIED

\* the selections a user can reach on the page of the last run
OfferedDistricts == Unique(out.districts) \cup {out.selected_dist}
OfferedQuarters == Unique(out.options_q)

HasUnclassifiedRow(df) ==
    \E i \in 1..Len(df.rows) : df.rows[i][PosDistrict] = UNCLASSIFIED

\* C3 as claimed: when the loaded table has an unclassified row, some
\* borough/quarter selection the page offers gives a view that holds it.
C3_UnclassifiedRowInSomeView ==
    ("filters" \in out.page /\ HasUnclassifiedRow(out.df[1])) =>
        \E d \in OfferedDistricts, q \in OfferedQuarters :
            \E i \in 1..Len(sub_df(out.df[1], d, q)) :
                sub_df(out.df[1], d, q)[i][PosDistrict] = UNCLASSIFIED

\* C3 as amended: rows whose area name holds no keyword are labelled
\* unclassified, the selector never offers that label, no view of any offered
\* selection holds such a row, and the total shown is the sum over the rows
\* of the selected borough only.
C3_UnclassifiedRowInNoView ==
    "filters" \in out.page =>
        LET df == out.df[1]
            chosen == {i \in 1..Len(df.rows) :
                          /\ df.rows[i][PosDistrict] = out.selected_dist
                          /\ df.rows[i][PosDistrict] # UNCLASSIFIED
                          /\ \/ out.selected_q = ALL_QUARTERS
                             \/ py_str_int(df.rows[i][PosQuarter]) = out.selected_q}
        IN  /\ \A i \in 1..Len(df.rows) :
                  Hits(py_str(df.rows[i][PosArea])) = {}
                      => df.rows[i][PosDistrict] = UNCLASSIFIED
            /\ UNCLASSIFIED \notin OfferedDistricts
            /\ \A d \in OfferedDistricts, q \in OfferedQuarters :
                  \A i \in 1..Len(sub_df(df, d, q)) :
                      sub_df(df, d, q)[i][PosDistrict] # UNCLASSIFIED
            /\ \A i \in 1..Len(out.sub_df) : out.sub_df[i][PosDistrict] # UNCLASSIFIED
            /\ out.summary # <<>> =>
                  out.summary[1].total =
                      SumSeq([k \in 1..Len(df.rows) |->
                                IF k \in chosen THEN df.rows[k][PosSales] ELSE 0])

C3_Witness ==
    /\ out.summary # <<>>
    /\ HasUnclassifiedRow(out.df[1])
    /\ out.summary[1].total <
          SumSeq([k \in 1..Len(out.df[1].rows) |-> out.df[1].rows[k][PosSales]])

\* what line 71 guards: filters, warning, metrics, charts, table, insight
Downstream == {"filters", "warning"} \cup SummaryElements

\* C4: a run that loads while the file is missing does not raise, shows the
\* error, gets the empty table, and shows nothing of what line 71 guards.
C4_MissingFileSkipsDisplay ==
    [][(cache = <<>> /\ file.kind = "missing" /\ file' = file) =>
          /\ ~out'.exception
          /\ out'.df = <<EmptyDataFrame>>
          /\ "error" \in out'.page
          /\ out'.page \cap Downstream = {}
          /\ out'.summary = <<>>
          /\ out'.districts = <<>> /\ out'.options_q = <<>>]_vars

C4_Witness ==
    /\ out.df = <<EmptyDataFrame>>
    /\ out.page = {"title", "error", "sidebar_info"}
    /\ cache # <<>> /\ cache[1].error

\* the rows of the loaded table the selection of the last run picks
MatchingRows ==
    {i \in 1..Len(out.df[1].rows) :
        /\ out.df[1].rows[i][PosDistrict] = out.selected_dist
        /\ \/ out.selected_q = ALL_QUARTERS
           \/ py_str_int(out.df[1].rows[i][PosQuarter]) = out.selected_q}

\* C5: aggregates are on the page only when the selection picks some row;
\* when it picks none, the warning is shown and no aggregate is computed.
C5_AggregateOnlyNonEmptyView ==
    /\ (out.summary # <<>> \/ out.page \cap SummaryElements # {}) =>
          /\ "filters" \in out.page
          /\ MatchingRows # {}
          /\ "warning" \notin out.page
    /\ ("filters" \in out.page /\ MatchingRows = {}) =>
          /\ "warning" \in out.page
          /\ out.summary = <<>>
          /\ out.page \cap SummaryElements = {}

C5_Witness ==
    /\ "warning" \in out.page
    /\ out.selected_dist = "gangnamgu"
    /\ out.selected_q = Q2
    /\ out.summary = <<>>

\* C6: once written the cache never changes, and every run that gets a table
\* gets the stored one, whatever is at FILE_PATH by then.
C6_CacheWrittenOnce ==
    [][/\ cache # <<>> => cache' = cache
       /\ out'.df # <<>> => (cache' # <<>> /\ out'.df = <<cache'[1].df>>)
       /\ (cache = <<>> /\ cache' # <<>>) => cache' = <<load_data(file)>>]_vars

\* the page shows the first load's table while the file now holds another
C6_Witness ==
    /\ cache # <<>>
    /\ out.df = <<cache[1].df>>
    /\ "filters" \in out.page
    /\ session.dist # <<>>
    /\ file.kind = "missing"

\* a numeral: digits, or "-" and digits
IsNumeral(cell) ==
    LET body == IF cell # <<>> /\ cell[1] = "-" THEN Tail(cell) ELSE cell
    IN  body # <<>> /\ \A i \in 1..Len(body) : body[i] \in Unique(Digits)

\* its value, by place
NumeralValue(cell) ==
    LET neg == cell[1] = "-"
        body == IF neg THEN Tail(cell) ELSE cell
        abs == SumSeq([i \in 1..Len(body) |->
                         DigitValue(body[i]) * 10 ^ (Len(body) - i)])
    IN  IF neg THEN 0 - abs ELSE abs

\* the columns whose name ends in "maechul_geumaek" or "maechul_geonsu"
SalesColumns ==
    {c \in 1..Len(COLUMNS) :
        /\ Len(COLUMNS[c]) >= 2
        /\ COLUMNS[c][Len(COLUMNS[c]) - 1] = "maechul"
        /\ COLUMNS[c][Len(COLUMNS[c])] \in {"geumaek", "geonsu"}}

\* C7: the loaded table has one record per CSV row, and in every sales
\* amount or count column a cell that is no numeral (or is missing) is 0
\* and a numeral keeps its value.
C7_BadCellsBecomeZero ==
    cache # <<>> =>
        /\ Len(cache[1].df.rows) = Len(file.rows)
        /\ \A i \in 1..Len(file.rows), c \in SalesColumns :
              cache[1].df.rows[i][c] =
                  IF IsNumeral(file.rows[i][c]) THEN NumeralValue(file.rows[i][c]) ELSE 0

C7_Witness ==
    /\ cache # <<>>
    /\ Len(file.rows) = 2
    /\ file.rows[1][PosSales] = <<"7", "x">> /\ cache[1].df.rows[1][PosSales] = 0
    /\ file.rows[2][PosSales] = <<"-", "7">> /\ cache[1].df.rows[2][PosSales] = 0 - 7
    /\ file.rows[2][PosSales + 1] = <<"x", "7">> /\ cache[1].df.rows[2][PosSales + 1] = 0

\* the sales amounts of the view's rows of category k
AmountsOf(view, k) ==
    LET rows == {i \in 1..Len(view) : view[i][PosIndustry] = k}
    IN  [sum |-> SumSeq([i \in 1..Len(view) |->
                            IF i \in rows THEN view[i][PosSales] ELSE 0]),
         count |-> Cardinality(rows)]

\* C8: for a non-empty view the ranking has one entry per category of the
\* view, each with the mean of that category's sales amounts, in
\* non-increasing order of the mean; the top category is the first entry.
C8_RankingByMeanDescending ==
    out.summary # <<>> =>
        LET rank == out.summary[1].industry_rank
            view == out.sub_df
            cats == {view[i][PosIndustry] : i \in 1..Len(view)}
        IN  /\ Len(rank) = Cardinality(cats)
            /\ {rank[k].name : k \in 1..Len(rank)} = cats
            /\ \A k \in 1..Len(rank) :
                  /\ rank[k].mean.den > 0
                  /\ rank[k].mean.num * AmountsOf(view, rank[k].name).count
                        = AmountsOf(view, rank[k].name).sum * rank[k].mean.den
            /\ \A k \in 1..(Len(rank) - 1) :
                  rank[k].mean.num * rank[k + 1].mean.den
                      >= rank[k + 1].mean.num * rank[k].mean.den
            /\ out.summary[1].top_industry = rank[1].name
            /\ out.summary[1].top_industry_val = rank[1].mean

\* the spec's scenario: "keopi" (first in key order) with mean 100, "hansik"
\* with mean 200
C8_Witness ==
    /\ out.summary # <<>>
    /\ Len(out.sub_df) = 2
    /\ out.sub_df[1][PosIndustry] = "keopi" /\ out.sub_df[1][PosSales] = 100
    /\ out.sub_df[2][PosIndustry] = "hansik" /\ out.sub_df[2][PosSales] = 200
    /\ out.summary[1].industry_rank[1].name = "hansik"
    /\ out.summary[1].industry_rank[2].name = "keopi"
    /\ out.summary[1].top_industry = "hansik"

\* the age-bracket sales-amount columns
AgeAmountColumns ==
    {c \in SalesColumns :
        COLUMNS[c][1] = "yeonryeongdae" /\ COLUMNS[c][Len(COLUMNS[c])] = "geumaek"}

ColumnSum(view, c) == SumSeq([i \in 1..Len(view) |-> view[i][c]])

\* C9: for a non-empty view the dominant age bracket is that of the
\* age-bracket amount column with the largest sum over the view, and of the
\* first such column when several share the largest sum.
C9_FirstMaxAgeBracket ==
    out.summary # <<>> =>
        \E c \in AgeAmountColumns :
            /\ \A d \in AgeAmountColumns : ColumnSum(out.sub_df, d) <= ColumnSum(out.sub_df, c)
            /\ \A d \in AgeAmountColumns :
                  d < c => ColumnSum(out.sub_df, d) < ColumnSum(out.sub_df, c)
            /\ out.summary[1].main_age_group = <<COLUMNS[c][2], "dae">>

\* the 20s and the 30s share the largest sum: the 20s are reported
C9_Witness ==
    /\ out.summary # <<>>
    /\ out.summary[1].age_totals[1] < out.summary[1].age_totals[2]
    /\ out.summary[1].age_totals[2] = out.summary[1].age_totals[3]
    /\ out.summary[1].main_age_group = <<"20", "dae">>

\* C10: every borough offered has a row in the table; with some borough
\* offered and all quarters selected the view is not empty; the warning
\* appears only for a specific quarter or when no borough is offered.
C10_AllQuartersViewNonEmpty ==
    "filters" \in out.page =>
        /\ \A d \in Unique(out.districts) :
              \E i \in 1..Len(out.df[1].rows) : out.df[1].rows[i][PosDistrict] = d
        /\ (out.districts # <<>> /\ out.selected_q = ALL_QUARTERS) =>
              (out.sub_df # <<>> /\ "warning" \notin out.page)
        /\ "warning" \in out.page =>
              (out.selected_q # ALL_QUARTERS \/ out.districts = <<>>)

C10_Witness ==
    /\ "warning" \in out.page
    /\ out.districts # <<>>
    /\ out.selected_q # ALL_QUARTERS

====
